---- MODULE Spec2Model ----
(***************************************************************************)
(* icc_wcs_vcgt.py: convert the WCS calibration of a monitor ICC profile   *)
(* into a 'vcgt' tag.  Files and tags are sequences of bytes (0..255);     *)
(* main is a sequence of steps, one action per statement of main().        *)
(*                                                                         *)
(* TLC's integers are 32 bits wide.  Values read with ">I" are kept as     *)
(* plain integers (the inputs never set the top bit of a size, an offset   *)
(* or a count); the values that have to reach and pass 2^32, the product   *)
(* value * 65535 of the VCGT encoder and the offsets and sizes that        *)
(* generate_body and create_profile pack, are carried as two 16-bit        *)
(* halves.                                                                 *)
(*                                                                         *)
(* A byte string of the program is held as its leading bytes and the       *)
(* number of filler bytes (each FillByte) that follow them, so that a      *)
(* profile of a gigabyte is a state like any other: prof_data with fill,   *)
(* the val and fill of a tag.  In body and output_file the filler bytes    *)
(* are left out and counted in elided.  Every small input has no filler.  *)
(***************************************************************************)
EXTENDS Integers, Sequences, FiniteSets, TLC

VARIABLES
    inp,          \* how the input file of the first run was put together
    run,          \* 1: the conversion, 2: main again on the first run's output
    pc,           \* the statement of main() that runs next
    prof_data,    \* main: the bytes read from input_file, followed by
    fill,         \*       this many filler bytes
    tags,         \* main: the insertion-ordered dict of parse_tags
    wcs_data,     \* main: tags.get(b"MS00")
    cdmp_data,    \* main: first component of parse_wcs
    calib_data,   \* main: the r, g, b triples of extract_calib_data
    body,         \* the value of generate_body(tags) inside line 166
    elided,       \* filler bytes of body and output_file that are left out
    output_file,  \* the file at output_file: NoFile, or its bytes
    ret,          \* main's return value, NoRet while running or after a raise
    stdout,       \* the message printed
    exc,          \* the exception that ended main, "" when none
    reparsed      \* round-trip specification: parse_tags of the built profile

vars == <<inp, run, pc, prof_data, fill, tags, wcs_data, cdmp_data, calib_data,
          body, elided, output_file, ret, stdout, exc, reparsed>>

(***************************************************************************)
(* Bounds of the model.                                                    *)
(***************************************************************************)
MaxTagLen == 5
MaxExtraTags == 2
MaxLargeTags == 4

(***************************************************************************)
(* Bytes, slices and struct.                                               *)
(***************************************************************************)
Min(a, b) == IF a < b THEN a ELSE b

\* data[a:b] of Python for 0 <= a, 0 <= b: clipped to the data, never an error
Slice(data, a, b) ==
    IF a >= Min(b, Len(data)) THEN <<>>
    ELSE SubSeq(data, a + 1, Min(b, Len(data)))

Zeros(n) == [i \in 1..n |-> 0]

FillByte == 85

\* how many of the f filler bytes after data lie in data[a:b]
SliceFill(data, f, a, b) ==
    LET lo == IF a > Len(data) THEN a ELSE Len(data)
        hi == Min(b, Len(data) + f)
    IN  IF hi > lo THEN hi - lo ELSE 0

\* the first n bytes of data followed by f filler bytes, or all of them
Prefix(data, f, n) ==
    IF Len(data) >= n THEN SubSeq(data, 1, n)
    ELSE data \o [i \in 1..Min(f, n - Len(data)) |-> FillByte]

\* a value of up to 48 bits as [neg, hi, lo]: hi * 2^16 + lo, 0 <= lo < 2^16
Wide(n) == [neg |-> FALSE, hi |-> n \div 65536, lo |-> n % 65536]

WideAdd(a, b) ==
    [neg |-> FALSE, hi |-> a.hi + b.hi + ((a.lo + b.lo) \div 65536),
     lo |-> (a.lo + b.lo) % 65536]

\* struct.pack(">I", q) raises struct.error unless 0 <= q < 2^32
PackWideOk(q) == ~q.neg /\ q.hi < 65536

PackWide(q) == <<q.hi \div 256, q.hi % 256, q.lo \div 256, q.lo % 256>>

\* struct.pack(">I", n) raises struct.error unless 0 <= n < 2^32
PackU32Ok(n) == n >= 0 /\ (n \div 65536) < 65536

PackU32(n) ==
    <<(n \div 16777216) % 256, (n \div 65536) % 256, (n \div 256) % 256, n % 256>>

\* struct.unpack_from(fmt, data, ofs) raises struct.error when the buffer is short
UnpackOk(data, ofs, size) == ofs + size <= Len(data)

UnpackU32(data, ofs) ==
    data[ofs + 1] * 16777216 + data[ofs + 2] * 65536 + data[ofs + 3] * 256 + data[ofs + 4]

Unpack4s(data, ofs) == SubSeq(data, ofs + 1, ofs + 4)

acsp == <<97, 99, 115, 112>>
mntr == <<109, 110, 116, 114>>
RGB_ == <<82, 71, 66, 32>>
MSFT == <<77, 83, 70, 84>>
MS00 == <<77, 83, 48, 48>>
MS10 == <<77, 83, 49, 48>>
vcgt == <<118, 99, 103, 116>>
MaxVersion == 71303168  \* 0x04400000

HeaderSize == 128
HeaderStructSize == 84  \* struct.calcsize(">I4xI4s4s16x4s4s36x4s")
WcsStructSize == 32     \* struct.calcsize(">4s4xIIIIII")
TagEntrySize == 12      \* struct.calcsize(">4sII")

(***************************************************************************)
(* check_signature                                                         *)
(***************************************************************************)
check_signature_raises(data, f) == Len(data) + f < HeaderStructSize

check_signature(data, f) ==
    LET head == Prefix(data, f, HeaderStructSize)
        prof_size == UnpackU32(head, 0)
        prof_ver == UnpackU32(head, 8)
        prof_dev == Unpack4s(head, 12)
        prof_col == Unpack4s(head, 16)
        prof_sig == Unpack4s(head, 36)
        prof_plat == Unpack4s(head, 40)
        prof_creator == Unpack4s(head, 80)
    IN  IF prof_size # Len(data) + f THEN FALSE
        ELSE IF prof_size % 4 # 0 THEN FALSE
        ELSE IF prof_sig # acsp THEN FALSE
        ELSE IF prof_ver > MaxVersion THEN FALSE
        ELSE IF prof_dev # mntr THEN FALSE
        ELSE IF prof_col # RGB_ THEN FALSE
        ELSE IF prof_plat # MSFT THEN FALSE
        ELSE IF prof_creator # MSFT THEN FALSE
        ELSE TRUE

(***************************************************************************)
(* The dict of tags: a sequence of [sig, val, fill] with distinct sig, in  *)
(* insertion order; the value is val followed by fill filler bytes.        *)
(***************************************************************************)
DictHas(d, k) == \E i \in 1..Len(d) : d[i].sig = k

DictGet(d, k) == d[CHOOSE i \in 1..Len(d) : d[i].sig = k]

\* mutant: a new key goes first
DictSet_front(d, k, v, f) ==
    IF DictHas(d, k)
    THEN [i \in 1..Len(d) |->
             IF d[i].sig = k THEN [sig |-> k, val |-> v, fill |-> f] ELSE d[i]]
    ELSE <<[sig |-> k, val |-> v, fill |-> f]>> \o d

\* d[k] = v: a new key goes last, an old key keeps its place
DictSet(d, k, v, f) ==
    IF DictHas(d, k)
    THEN [i \in 1..Len(d) |->
             IF d[i].sig = k THEN [sig |-> k, val |-> v, fill |-> f] ELSE d[i]]
    ELSE Append(d, [sig |-> k, val |-> v, fill |-> f])

(***************************************************************************)
(* parse_tags                                                              *)
(***************************************************************************)
tag_count(data, f) == UnpackU32(Prefix(data, f, HeaderSize + 4), HeaderSize)

parse_tags_raises(data, f) ==
    \/ Len(data) + f < HeaderSize + 4
    \/ \E i \in 0..(tag_count(data, f) - 1) :
           Len(data) + f < HeaderSize + 4 + TagEntrySize * i + TagEntrySize

RECURSIVE parse_tags_loop(_, _, _, _)
parse_tags_loop(data, f, i, result) ==
    IF i >= tag_count(data, f) THEN result
    ELSE LET e == HeaderSize + 4 + TagEntrySize * i
             head == Prefix(data, f, e + TagEntrySize)
             tag_sig == Unpack4s(head, e)
             tag_offset == UnpackU32(head, e + 4)
             tag_size == UnpackU32(head, e + 8)
         IN  parse_tags_loop(data, f, i + 1,
                 DictSet(result, tag_sig,
                         Slice(data, tag_offset, tag_offset + tag_size),
                         SliceFill(data, f, tag_offset, tag_offset + tag_size)))

parse_tags(data, f) == parse_tags_loop(data, f, 0, <<>>)

(***************************************************************************)
(* parse_wcs                                                               *)
(***************************************************************************)
parse_wcs_exc(data) ==
    IF ~UnpackOk(data, 0, WcsStructSize) THEN "struct.error"
    ELSE IF Unpack4s(data, 0) # MS10 THEN "AssertionError"
    ELSE ""

\* the first component of the result, the only one main keeps
parse_wcs(data) ==
    LET cdmp_ofs == UnpackU32(data, 8)
        cdmp_size == UnpackU32(data, 12)
    IN  Slice(data, cdmp_ofs, cdmp_ofs + cdmp_size)

(***************************************************************************)
(* The ColorDeviceModel documents.  xml.etree is a library: a document is  *)
(* the tree ET.fromstring returns, and its UTF-16 text is a byte order     *)
(* mark followed by one code unit that numbers the document; any other     *)
(* bytes (a cut text, an empty text) do not parse.  An attribute value is  *)
(* the exact rational num/den its text denotes, or text that float()       *)
(* refuses.  The values used are ones for which binary64 arithmetic and    *)
(* exact arithmetic agree on int(v * 65535).                               *)
(***************************************************************************)
Num(n, d) == [k |-> "num", num |-> n, den |-> d]
NoAttr == [k |-> "absent", num |-> 0, den |-> 1]
BadText == [k |-> "text", num |-> 0, den |-> 1]

Elem(ga, of, gn, ot) ==
    [present |-> TRUE, Gamma |-> ga, Offset1 |-> of, Gain |-> gn, other |-> ot]
NoElem ==
    [present |-> FALSE, Gamma |-> NoAttr, Offset1 |-> NoAttr, Gain |-> NoAttr,
     other |-> FALSE]

GammaTexts == <<NoAttr, Num(11, 5), Num(1, 2)>>
Offset1Texts == <<NoAttr, Num(0, 1), Num(1, 4)>>
GainTexts == <<NoAttr, Num(1, 1), Num(3, 4)>>

\* elements whose values do not encode, or encode at the edge of the range
EdgeElems == <<
    Elem(Num(-1, 1), NoAttr, NoAttr, FALSE),
    Elem(Num(-1, 65536), NoAttr, NoAttr, FALSE),
    Elem(NoAttr, NoAttr, Num(65537, 1), FALSE),
    Elem(NoAttr, NoAttr, Num(65538, 1), FALSE),
    Elem(NoAttr, Num(1, 1), NoAttr, TRUE),
    Elem(NoAttr, BadText, NoAttr, FALSE),
    Elem(Num(131075, 2), Num(0, 1), Num(1, 1), FALSE) >>

NumPlainElems == 28
NumElems == NumPlainElems + Len(EdgeElems)

\* element choice e in 0..NumElems-1: 0 absent, 1..27 every combination of the
\* three attributes being absent or one of two values, then the edge elements
ElemOf(e) ==
    IF e = 0 THEN NoElem
    ELSE IF e < NumPlainElems
    THEN Elem(GammaTexts[((e - 1) % 3) + 1],
              Offset1Texts[(((e - 1) \div 3) % 3) + 1],
              GainTexts[(((e - 1) \div 9) % 3) + 1], FALSE)
    ELSE EdgeElems[e - NumPlainElems + 1]

FullElem == Elem(Num(11, 5), Num(0, 1), Num(1, 1), FALSE)

\* documents 1..NumCurveDocs: channel c holds element e, the two other channels
\* are each absent or FullElem; document NumCurveDocs + 1 has no
\* ParameterizedCurves element
NumCurveDocs == 3 * NumElems * 4
NumDocs == NumCurveDocs + 1

DocOf(k) ==
    LET o == (k - 1) % 4
        e == ((k - 1) \div 4) % NumElems
        c == ((k - 1) \div (4 * NumElems)) + 1
        o1 == IF o % 2 = 1 THEN FullElem ELSE NoElem
        o2 == IF o \div 2 = 1 THEN FullElem ELSE NoElem
    IN  IF k > NumCurveDocs THEN [curves |-> FALSE, trc |-> <<NoElem, NoElem, NoElem>>]
        ELSE [curves |-> TRUE,
              trc |-> IF c = 1 THEN <<ElemOf(e), o1, o2>>
                      ELSE IF c = 2 THEN <<o1, ElemOf(e), o2>>
                      ELSE <<o1, o2, ElemOf(e)>>]

DocBytes(k) == <<255, 254, k % 256, k \div 256>>

IsDocText(data) ==
    /\ Len(data) = 4
    /\ data[1] = 255 /\ data[2] = 254
    /\ (data[3] + 256 * data[4]) \in 1..NumDocs

\* ET.fromstring(cdmp_data.decode("utf16"))
FromString(data) == DocOf(data[3] + 256 * data[4])

(***************************************************************************)
(* extract_calib_data                                                      *)
(***************************************************************************)
\* mutant: every absent attribute defaults to 1
AttrGet_one(a, d) == IF a.k = "absent" THEN Num(1, 1) ELSE a

\* calib_tag.get(x, d)
AttrGet(a, d) == IF a.k = "absent" THEN Num(d, 1) ELSE a

\* what one pass of the loop over the channels raises, "" when nothing
ChannelExc(el) ==
    IF el.present /\ el.other THEN "AssertionError"
    ELSE IF \E a \in {el.Gamma, el.Offset1, el.Gain} : a.k = "text" THEN "ValueError"
    ELSE ""

ChannelTriple(el) ==
    <<AttrGet(el.Gamma, 1), AttrGet(el.Offset1, 0), AttrGet(el.Gain, 1)>>

extract_calib_data_exc(data) ==
    IF Len(data) % 2 = 1 THEN "UnicodeDecodeError"
    ELSE IF ~IsDocText(data) THEN "ParseError"
    ELSE LET doc == FromString(data)
         IN  IF ~doc.curves THEN "AssertionError"
             ELSE IF ChannelExc(doc.trc[1]) # "" THEN ChannelExc(doc.trc[1])
             ELSE IF ChannelExc(doc.trc[2]) # "" THEN ChannelExc(doc.trc[2])
             ELSE ChannelExc(doc.trc[3])

extract_calib_data(data) ==
    LET doc == FromString(data)
    IN  [i \in 1..3 |-> ChannelTriple(doc.trc[i])]

(***************************************************************************)
(* generate_vcgt                                                           *)
(***************************************************************************)
\* int(v * 65535) as [neg, hi, lo]: sign and the magnitude hi * 2^16 + lo.
\* |num| = a * den + r gives |v| * 65535 = a * 65536 + (t - a) + fraction,
\* t = r * 65535 \div den, and int() drops the fraction (toward zero).
IntScaled(v) ==
    LET n == IF v.num < 0 THEN 0 - v.num ELSE v.num
        a == n \div v.den
        r == n % v.den
        t == (r * 65535) \div v.den
        d == t - a
        hi == a + (d \div 65536)
        lo == d % 65536
    IN  [neg |-> v.num < 0 /\ (hi # 0 \/ lo # 0), hi |-> hi, lo |-> lo]

VcgtPrefix == vcgt \o <<0, 0, 0, 0>> \o <<0, 0, 0, 1>>

generate_vcgt_raises(calib) ==
    \E i \in 1..3 : \E j \in 1..3 : ~PackWideOk(IntScaled(calib[i][j]))

ChannelWords(t) ==
    PackWide(IntScaled(t[1])) \o PackWide(IntScaled(t[2])) \o PackWide(IntScaled(t[3]))

generate_vcgt(calib) ==
    VcgtPrefix \o ChannelWords(calib[1]) \o ChannelWords(calib[2])
               \o ChannelWords(calib[3])

(***************************************************************************)
(* generate_body, create_profile                                           *)
(***************************************************************************)
\* mutant: an aligned length is padded by a whole word
PaddedSize_word(n) == n + 4 - (n % 4)

\* size = len(val) + 3; size -= size % 4
PaddedSize(n) == (n + 3) - ((n + 3) % 4)

\* len(val)
ValLen(e) == Len(e.val) + e.fill

\* the offset the first loop holds when it reaches entry i (1-based)
RECURSIVE TagOffset(_, _)
TagOffset(d, i) ==
    IF i = 1 THEN Wide(HeaderSize + 4 + Len(d) * TagEntrySize)
    ELSE WideAdd(TagOffset(d, i - 1), Wide(PaddedSize(ValLen(d[i - 1]))))

RECURSIVE BodyEntries(_, _)
BodyEntries(d, i) ==
    IF i > Len(d) THEN <<>>
    ELSE d[i].sig \o PackWide(TagOffset(d, i)) \o PackU32(ValLen(d[i]))
         \o BodyEntries(d, i + 1)

\* pad_size = 4 - len(val) % 4; added when pad_size < 4
TagPadding(n) == IF 4 - (n % 4) < 4 THEN Zeros(4 - (n % 4)) ELSE <<>>

\* the second loop, the filler bytes of the values left out
RECURSIVE BodyData(_, _)
BodyData(d, i) ==
    IF i > Len(d) THEN <<>>
    ELSE d[i].val \o TagPadding(ValLen(d[i])) \o BodyData(d, i + 1)

\* the filler bytes BodyData leaves out
RECURSIVE BodyElided(_, _)
BodyElided(d, i) ==
    IF i > Len(d) THEN Wide(0) ELSE WideAdd(Wide(d[i].fill), BodyElided(d, i + 1))

generate_body_raises(d) ==
    \/ ~PackU32Ok(Len(d))
    \/ \E i \in 1..Len(d) : ~PackWideOk(TagOffset(d, i)) \/ ~PackU32Ok(ValLen(d[i]))

generate_body(d) == PackU32(Len(d)) \o BodyEntries(d, 1) \o BodyData(d, 1)

\* len(body) + 128, for a body bd that leaves out el filler bytes
ProfileSize(bd, el) == WideAdd(Wide(Len(bd) + HeaderSize), el)

create_profile_raises(header, bd, el) == ~PackWideOk(ProfileSize(bd, el))

\* mutant: the size field counts the body alone
create_profile_body(header, bd, el) ==
    PackWide(WideAdd(Wide(Len(bd)), el)) \o Slice(header, 4, Len(header)) \o bd

\* mutant: the size field of the input is kept
create_profile_kept(header, bd, el) == header \o bd

create_profile(header, bd, el) ==
    PackWide(ProfileSize(bd, el)) \o Slice(header, 4, Len(header)) \o bd

(***************************************************************************)
(* The input files main reads (lines 149-150).  A file is put together     *)
(* from a description: the header variant, the tag table, the document in  *)
(* the WCS tag, and how the file departs from a well-formed profile.  Tag  *)
(* data is stored in reverse table order without padding between tags (a   *)
(* layout profiles may have, and not the one generate_body writes).  A     *)
(* large file ends in FillLen filler bytes, and its table has, after the   *)
(* other entries, one entry for each size of the description, every one    *)
(* of them starting where the filler starts: tags that share their data.  *)
(***************************************************************************)
NoCut == 0 - 1
PlainVersion == 69206016  \* 0x04200000
BaseDoc == 16

HeaderVariants ==
    {"ok", "ver_max", "ver_over", "size_off", "size_mod4", "bad_sig", "bad_dev",
     "bad_col", "bad_plat", "bad_creator"}
WcsVariants == {"ok", "bad_sig", "short", "cdmp_cut", "cdmp_odd"}
TabVariants == {"ok", "size_past_eof", "offset_past_eof", "count_over", "alias"}
ShortLens == {0, 3, 4, 83, 84, 127, 128, 131, 132, 143}

ExtraSigs == << <<100, 101, 115, 99>>, <<119, 116, 112, 116>>, <<99, 112, 114, 116>>,
                <<114, 88, 89, 90>>, <<103, 88, 89, 90>> >>

FillLen == 1073741824  \* 2^30
LargeSizes == {FillLen, FillLen - 260, FillLen - 3}

\* the content of the i-th extra tag: n bytes, none of them zero
TagBytes(i, n) == [j \in 1..n |-> 16 * i + j]

OldVcgt == <<1, 2, 3, 4>>

\* the 128 header bytes: the fields check_signature reads, every other byte
\* its own position
HeaderBytes(size, hdr) ==
    LET field(p) ==
            IF p < 4 THEN PackU32(size)[p + 1]
            ELSE IF p \in 8..11
            THEN PackU32(IF hdr = "ver_max" THEN MaxVersion
                         ELSE IF hdr = "ver_over" THEN MaxVersion + 1
                         ELSE PlainVersion)[p - 7]
            ELSE IF p \in 12..15 THEN (IF hdr = "bad_dev" /\ p = 15 THEN 115 ELSE mntr[p - 11])
            ELSE IF p \in 16..19 THEN (IF hdr = "bad_col" /\ p = 16 THEN 88 ELSE RGB_[p - 15])
            ELSE IF p \in 36..39 THEN (IF hdr = "bad_sig" /\ p = 36 THEN 65 ELSE acsp[p - 35])
            ELSE IF p \in 40..43 THEN (IF hdr = "bad_plat" /\ p = 40 THEN 65 ELSE MSFT[p - 39])
            ELSE IF p \in 80..83 THEN (IF hdr = "bad_creator" /\ p = 83 THEN 32 ELSE MSFT[p - 79])
            ELSE p
    IN  [i \in 1..HeaderSize |-> field(i - 1)]

\* the WCS tag: 'MS10', 4 reserved bytes, three (offset, length) pairs, the
\* ColorDeviceModel text and two bytes each for the two other models
WcsBytes(doc, wcs) ==
    LET whole == (IF wcs = "bad_sig" THEN <<77, 83, 49, 49>> ELSE MS10)
                 \o <<0, 0, 0, 0>>
                 \o PackU32(WcsStructSize) \o PackU32(IF wcs = "cdmp_odd" THEN 3 ELSE 4)
                 \o PackU32(WcsStructSize + 4) \o PackU32(2)
                 \o PackU32(WcsStructSize + 6) \o PackU32(2)
                 \o DocBytes(doc) \o <<9, 9>> \o <<8, 8>>
    IN  IF wcs = "short" THEN SubSeq(whole, 1, WcsStructSize - 1)
        ELSE IF wcs = "cdmp_cut" THEN SubSeq(whole, 1, WcsStructSize + 2)
        ELSE whole

\* the tag table the description asks for, as a list of [sig, val]
InputTable(d) ==
    LET ex == [i \in 1..Len(d.extras) |->
                  [sig |-> ExtraSigs[IF d.dup THEN 1 ELSE i],
                   val |-> TagBytes(i, d.extras[i])]]
        ms == << [sig |-> MS00, val |-> WcsBytes(d.doc, d.wcs)] >>
        core == IF d.ms00 = "first" THEN ms \o ex
                ELSE IF d.ms00 = "last" THEN ex \o ms
                ELSE ex
    IN  IF d.hasvcgt THEN Append(core, [sig |-> vcgt, val |-> OldVcgt]) ELSE core

\* where the file holds the content of entry i: after the entries of the
\* table and after the content of every later entry
RECURSIVE InputOffset(_, _, _)
InputOffset(d, t, i) ==
    IF i = Len(t) THEN HeaderSize + 4 + TagEntrySize * (Len(t) + Len(d.large))
    ELSE InputOffset(d, t, i + 1) + Len(t[i + 1].val)

RECURSIVE InputData(_, _)
InputData(t, i) == IF i = 0 THEN <<>> ELSE t[i].val \o InputData(t, i - 1)

InputDataEnd(d, t) ==
    IF Len(t) = 0 THEN HeaderSize + 4 + TagEntrySize * Len(d.large)
    ELSE InputOffset(d, t, 1) + Len(t[1].val)

\* the filler bytes after the leading bytes of the file
InputFill(d) == IF d.large = <<>> THEN 0 ELSE FillLen

\* the (offset, size) entry i declares
InputEntry(d, t, i) ==
    LET off == IF d.tab = "offset_past_eof" /\ i = 1 THEN InputDataEnd(d, t) + 64
               ELSE IF d.tab = "alias" /\ i = 1 THEN InputOffset(d, t, Len(t))
               ELSE InputOffset(d, t, i)
        size == IF d.tab = "size_past_eof" /\ i = 1 THEN Len(t[i].val) + 64
                ELSE IF d.tab = "alias" /\ i = 1 THEN Len(t[Len(t)].val)
                ELSE Len(t[i].val)
    IN  <<off, size>>

RECURSIVE InputEntries(_, _, _)
InputEntries(d, t, i) ==
    IF i > Len(t) THEN <<>>
    ELSE t[i].sig \o PackU32(InputEntry(d, t, i)[1]) \o PackU32(InputEntry(d, t, i)[2])
         \o InputEntries(d, t, i + 1)

\* the entries of the large tags: size d.large[i] from where the filler starts
RECURSIVE LargeEntries(_, _, _)
LargeEntries(d, start, i) ==
    IF i > Len(d.large) THEN <<>>
    ELSE ExtraSigs[i] \o PackU32(start) \o PackU32(d.large[i])
         \o LargeEntries(d, start, i + 1)

\* the leading bytes of the file; InputFill(d) filler bytes follow them
BuildInput(d) ==
    LET t == InputTable(d)
        n == Len(t) + Len(d.large)
        count == IF d.tab = "count_over" THEN n + 1000 ELSE n
        dataend == InputDataEnd(d, t)
        start == dataend + ((4 - (dataend % 4)) % 4)
        raw == PackU32(count) \o InputEntries(d, t, 1) \o LargeEntries(d, start, 1)
               \o InputData(t, Len(t))
        endpad == Zeros((4 - (Len(raw) % 4)) % 4)
                  \o (IF d.hdr = "size_mod4" THEN <<0, 0>> ELSE <<>>)
        rest == raw \o endpad
        total == HeaderSize + Len(rest) + InputFill(d)
        whole == HeaderBytes(IF d.hdr = "size_off" THEN total + 4 ELSE total, d.hdr)
                 \o rest
    IN  IF d.cut = NoCut THEN whole
        ELSE IF d.cut < 4 THEN SubSeq(whole, 1, d.cut)
        ELSE PackU32(d.cut) \o SubSeq(whole, 5, d.cut)

Base ==
    [hdr |-> "ok", cut |-> NoCut, extras |-> <<3>>, dup |-> FALSE, ms00 |-> "first",
     hasvcgt |-> FALSE, doc |-> BaseDoc, wcs |-> "ok", tab |-> "ok", large |-> <<>>]

LenSeqs(n) == UNION {[1..m -> 0..MaxTagLen] : m \in 0..n}

Inputs ==
    {[Base EXCEPT !.hdr = h] : h \in HeaderVariants}
    \cup {[Base EXCEPT !.cut = c] : c \in ShortLens}
    \cup {[Base EXCEPT !.cut = c, !.ms00 = "none", !.extras = <<>>] : c \in {NoCut, 131}}
    \cup {[Base EXCEPT !.extras = x, !.ms00 = m, !.hasvcgt = v] :
             x \in LenSeqs(MaxExtraTags), m \in {"first", "last", "none"}, v \in BOOLEAN}
    \cup {[Base EXCEPT !.doc = k] : k \in 1..NumDocs}
    \cup {[Base EXCEPT !.wcs = w, !.ms00 = m] : w \in WcsVariants, m \in {"first", "last"}}
    \cup {[Base EXCEPT !.tab = t, !.ms00 = m, !.extras = <<3, 2>>] :
             t \in TabVariants, m \in {"first", "last"}}
    \cup {[Base EXCEPT !.extras = <<3, 2>>, !.dup = TRUE, !.ms00 = m] :
             m \in {"first", "last"}}

LargeInputs ==
    {[Base EXCEPT !.extras = <<>>, !.large = x] :
        x \in UNION {[1..m -> LargeSizes] : m \in 1..MaxLargeTags}}

(***************************************************************************)
(* main, one action per statement.                                         *)
(***************************************************************************)
None == <<0 - 1>>
NoFile == <<0 - 2>>
NoRet == 0 - 1

InitOn(descriptions) ==
    /\ inp \in descriptions
    /\ run = 1
    /\ pc = "check_signature"
    /\ prof_data = BuildInput(inp)
    /\ fill = InputFill(inp)
    /\ tags = <<>>
    /\ wcs_data = None
    /\ cdmp_data = None
    /\ calib_data = <<>>
    /\ body = None
    /\ elided = Wide(0)
    /\ output_file = NoFile
    /\ ret = NoRet
    /\ stdout = ""
    /\ exc = ""
    /\ reparsed = <<>>

Init == InitOn(Inputs)

InitAll == InitOn(Inputs \cup LargeInputs)

\* an exception leaves main: nothing is printed or returned
Raise(e) == pc' = "done" /\ exc' = e /\ UNCHANGED <<ret, stdout>>

\* print(msg); return 1
Report(msg) == pc' = "done" /\ stdout' = msg /\ ret' = 1 /\ UNCHANGED exc

Goto(l) == pc' = l /\ UNCHANGED <<ret, stdout, exc>>

\* lines 151-153
Main_CheckSignature ==
    /\ pc = "check_signature"
    /\ IF check_signature_raises(prof_data, fill) THEN Raise("struct.error")
       ELSE IF ~check_signature(prof_data, fill) THEN Report("Invalid ICC profile")
       ELSE Goto("parse_tags")
    /\ UNCHANGED <<inp, run, prof_data, fill, tags, wcs_data, cdmp_data, calib_data, body,
                   elided, output_file, reparsed>>

\* line 154
Main_ParseTags ==
    /\ pc = "parse_tags"
    /\ IF parse_tags_raises(prof_data, fill)
       THEN Raise("struct.error") /\ UNCHANGED tags
       ELSE Goto("check_vcgt") /\ tags' = parse_tags(prof_data, fill)
    /\ UNCHANGED <<inp, run, prof_data, fill, wcs_data, cdmp_data, calib_data, body,
                   elided, output_file, reparsed>>

\* mutant: the VCGT check is skipped
Main_CheckVcgt_skipped ==
    /\ pc = "check_vcgt"
    /\ Goto("get_wcs")
    /\ UNCHANGED <<inp, run, prof_data, fill, tags, wcs_data, cdmp_data, calib_data, body,
                   elided, output_file, reparsed>>

\* lines 155-157
Main_CheckVcgt ==
    /\ pc = "check_vcgt"
    /\ IF DictHas(tags, vcgt) THEN Report("Profile already has VCGT")
       ELSE Goto("get_wcs")
    /\ UNCHANGED <<inp, run, prof_data, fill, tags, wcs_data, cdmp_data, calib_data, body,
                   elided, output_file, reparsed>>

\* lines 158-161; the inputs hold the MS00 tag in the leading bytes of the file
Main_GetWcs ==
    /\ pc = "get_wcs"
    /\ IF ~DictHas(tags, MS00)
       THEN Report("WCS tag is not present") /\ UNCHANGED wcs_data
       ELSE Goto("parse_wcs") /\ wcs_data' = DictGet(tags, MS00).val
    /\ UNCHANGED <<inp, run, prof_data, fill, tags, cdmp_data, calib_data, body,
                   elided, output_file, reparsed>>

\* line 162
Main_ParseWcs ==
    /\ pc = "parse_wcs"
    /\ IF parse_wcs_exc(wcs_data) # ""
       THEN Raise(parse_wcs_exc(wcs_data)) /\ UNCHANGED cdmp_data
       ELSE Goto("extract_calib_data") /\ cdmp_data' = parse_wcs(wcs_data)
    /\ UNCHANGED <<inp, run, prof_data, fill, tags, wcs_data, calib_data, body,
                   elided, output_file, reparsed>>

\* line 163
Main_ExtractCalibData ==
    /\ pc = "extract_calib_data"
    /\ IF extract_calib_data_exc(cdmp_data) # ""
       THEN Raise(extract_calib_data_exc(cdmp_data)) /\ UNCHANGED calib_data
       ELSE Goto("generate_vcgt") /\ calib_data' = extract_calib_data(cdmp_data)
    /\ UNCHANGED <<inp, run, prof_data, fill, tags, wcs_data, cdmp_data, body,
                   elided, output_file, reparsed>>

\* line 164
Main_GenerateVcgt ==
    /\ pc = "generate_vcgt"
    /\ IF generate_vcgt_raises(calib_data)
       THEN Raise("struct.error") /\ UNCHANGED tags
       ELSE Goto("open_output") /\ tags' = DictSet(tags, vcgt, generate_vcgt(calib_data), 0)
    /\ UNCHANGED <<inp, run, prof_data, fill, wcs_data, cdmp_data, calib_data, body,
                   elided, output_file, reparsed>>

\* line 165: open(output_file, "wb") creates the file, or empties it
Main_OpenOutput ==
    /\ pc = "open_output"
    /\ output_file' = <<>>
    /\ Goto("generate_body")
    /\ UNCHANGED <<inp, run, prof_data, fill, tags, wcs_data, cdmp_data, calib_data, body,
                   elided, reparsed>>

\* line 166, the argument generate_body(tags), evaluated with the file open
Main_GenerateBody ==
    /\ pc = "generate_body"
    /\ IF generate_body_raises(tags)
       THEN Raise("struct.error") /\ UNCHANGED <<body, elided>>
       ELSE /\ Goto("write")
            /\ body' = generate_body(tags)
            /\ elided' = BodyElided(tags, 1)
    /\ UNCHANGED <<inp, run, prof_data, fill, tags, wcs_data, cdmp_data, calib_data,
                   output_file, reparsed>>

\* line 166: f.write(create_profile(prof_data[:128], body)), and the file closes
Main_Write ==
    /\ pc = "write"
    /\ IF create_profile_raises(Prefix(prof_data, fill, HeaderSize), body, elided)
       THEN Raise("struct.error") /\ UNCHANGED output_file
       ELSE /\ Goto("return")
            /\ output_file' =
                   create_profile(Prefix(prof_data, fill, HeaderSize), body, elided)
    /\ UNCHANGED <<inp, run, prof_data, fill, tags, wcs_data, cdmp_data, calib_data, body,
                   elided, reparsed>>

\* line 167
Main_Return ==
    /\ pc = "return"
    /\ pc' = "done" /\ ret' = 0
    /\ UNCHANGED <<inp, run, prof_data, fill, tags, wcs_data, cdmp_data, calib_data, body,
                   elided, output_file, stdout, exc, reparsed>>

\* main again, reading the file the first run wrote (a file held in full) and
\* writing a new file
RunAgain ==
    /\ pc = "done" /\ run = 1 /\ ret = 0
    /\ elided = Wide(0)
    /\ run' = 2
    /\ pc' = "check_signature"
    /\ prof_data' = output_file
    /\ fill' = 0
    /\ tags' = <<>>
    /\ wcs_data' = None
    /\ cdmp_data' = None
    /\ calib_data' = <<>>
    /\ body' = None
    /\ output_file' = NoFile
    /\ ret' = NoRet
    /\ stdout' = ""
    /\ exc' = ""
    /\ UNCHANGED <<inp, elided, reparsed>>

Next ==
    \/ Main_CheckSignature
    \/ Main_ParseTags
    \/ Main_CheckVcgt
    \/ Main_GetWcs
    \/ Main_ParseWcs
    \/ Main_ExtractCalibData
    \/ Main_GenerateVcgt
    \/ Main_OpenOutput
    \/ Main_GenerateBody
    \/ Main_Write
    \/ Main_Return
    \/ RunAgain

Spec == Init /\ [][Next]_vars

\* the same program, the large files among its inputs
SpecAll == InitAll /\ [][Next]_vars

(***************************************************************************)
(* generate_body and parse_tags as pure functions: a table is drawn, the   *)
(* profile is built from it, and the profile is parsed back.               *)
(***************************************************************************)
MaxBodyTags == 3

BodyTable(x) ==
    [i \in 1..Len(x) |-> [sig |-> ExtraSigs[i], val |-> TagBytes(i, x[i]), fill |-> 0]]

InitBody ==
    /\ inp \in {[Base EXCEPT !.extras = x, !.ms00 = "none"] : x \in LenSeqs(MaxBodyTags)}
    /\ run = 1
    /\ pc = "body_serialize"
    /\ prof_data = HeaderBytes(HeaderSize, "ok")
    /\ fill = 0
    /\ tags = BodyTable(inp.extras)
    /\ wcs_data = None
    /\ cdmp_data = None
    /\ calib_data = <<>>
    /\ body = None
    /\ elided = Wide(0)
    /\ output_file = NoFile
    /\ ret = NoRet
    /\ stdout = ""
    /\ exc = ""
    /\ reparsed = <<>>

\* create_profile(header, generate_body(tags))
Body_Serialize ==
    /\ pc = "body_serialize"
    /\ body' = generate_body(tags)
    /\ output_file' = create_profile(prof_data, generate_body(tags), elided)
    /\ pc' = "body_parse"
    /\ UNCHANGED <<inp, run, prof_data, fill, tags, wcs_data, cdmp_data, calib_data,
                   elided, ret, stdout, exc, reparsed>>

\* parse_tags of the profile just built
Body_Parse ==
    /\ pc = "body_parse"
    /\ ~parse_tags_raises(output_file, 0)
    /\ reparsed' = parse_tags(output_file, 0)
    /\ pc' = "body_done"
    /\ UNCHANGED <<inp, run, prof_data, fill, tags, wcs_data, cdmp_data, calib_data, body,
                   elided, output_file, ret, stdout, exc>>

NextBody == Body_Serialize \/ Body_Parse

SpecBody == InitBody /\ [][NextBody]_vars

(***************************************************************************)
(* What a profile file says, read from its bytes as the ICC layout gives   *)
(* it (section 6 of the specification), for stating the properties.  The   *)
(* readers with a length n read the leading bytes of a file of n bytes.    *)
(***************************************************************************)
FieldIs(data, ofs, sig) == ofs + 4 <= Len(data) /\ SubSeq(data, ofs + 1, ofs + 4) = sig

DeclaredSize(data) == UnpackU32(data, 0)

\* the eight conditions of header validation, each false when its field is missing
SizeMatches(data, n) == Len(data) >= 4 /\ DeclaredSize(data) = n
SizeAligned(data) == Len(data) >= 4 /\ DeclaredSize(data) % 4 = 0
VersionAllowed(data) == Len(data) >= 12 /\ UnpackU32(data, 8) <= 71303168
HeaderValidOf(data, n) ==
    /\ SizeMatches(data, n)
    /\ SizeAligned(data)
    /\ FieldIs(data, 36, acsp)
    /\ VersionAllowed(data)
    /\ FieldIs(data, 12, mntr)
    /\ FieldIs(data, 16, RGB_)
    /\ FieldIs(data, 40, MSFT)
    /\ FieldIs(data, 80, MSFT)
HeaderValid(data) == HeaderValidOf(data, Len(data))

EntryCount(data) == UnpackU32(data, 128)
TableInFile(data) == Len(data) >= 132 /\ 132 + 12 * EntryCount(data) <= Len(data)
EntrySig(data, i) == SubSeq(data, 132 + 12 * (i - 1) + 1, 132 + 12 * (i - 1) + 4)
EntryOffset(data, i) == UnpackU32(data, 132 + 12 * (i - 1) + 4)
EntryLength(data, i) == UnpackU32(data, 132 + 12 * (i - 1) + 8)
EntryInFile(data, i) == EntryOffset(data, i) + EntryLength(data, i) <= Len(data)
\* the bytes of the file that lie in the range entry i declares
EntryBytes(data, i) ==
    [j \in 1..(Min(EntryOffset(data, i) + EntryLength(data, i), Len(data))
               - Min(EntryOffset(data, i), Len(data))) |-> data[EntryOffset(data, i) + j]]

HasTag(data, sig) ==
    TableInFile(data) /\ \E i \in 1..EntryCount(data) : EntrySig(data, i) = sig
UniqueSignatures(data) ==
    \A i, j \in 1..EntryCount(data) : EntrySig(data, i) = EntrySig(data, j) => i = j
TagBytesOf(data, sig) ==
    EntryBytes(data, CHOOSE i \in 1..EntryCount(data) :
                         /\ EntrySig(data, i) = sig
                         /\ \A j \in (i + 1)..EntryCount(data) : EntrySig(data, j) # sig)

\* the WCS payload: 'MS10', then the ColorDeviceModel range inside the payload
\* holding the text of a document
WcsHasDocument(w) ==
    /\ Len(w) >= 32
    /\ SubSeq(w, 1, 4) = MS10
    /\ UnpackU32(w, 8) + UnpackU32(w, 12) <= Len(w)
    /\ UnpackU32(w, 12) = 4
    /\ w[UnpackU32(w, 8) + 1] = 255 /\ w[UnpackU32(w, 8) + 2] = 254
    /\ (w[UnpackU32(w, 8) + 3] + 256 * w[UnpackU32(w, 8) + 4]) \in 1..NumDocs
WcsDocument(w) == DocOf(w[UnpackU32(w, 8) + 3] + 256 * w[UnpackU32(w, 8) + 4])

Attrs(el) == <<el.Gamma, el.Offset1, el.Gain>>
ValueDefaults == <<1, 0, 1>>

\* v * 65535 lies in [0, 2^32 - 1], that is 0 <= v <= 65537
ProductInRange(v) ==
    /\ v.num >= 0
    /\ \/ v.num \div v.den < 65537
       \/ v.num \div v.den = 65537 /\ v.num % v.den = 0

\* a document of the expected shape: the curves element is there and every
\* channel element present has only the three attributes, all numbers
DocumentShaped(doc) ==
    /\ doc.curves
    /\ \A c \in 1..3 : doc.trc[c].present =>
           /\ ~doc.trc[c].other
           /\ \A a \in 1..3 : Attrs(doc.trc[c])[a].k # "text"
DocumentInRange(doc) ==
    \A c \in 1..3 : \A a \in 1..3 :
        (doc.trc[c].present /\ Attrs(doc.trc[c])[a].k = "num")
            => ProductInRange(Attrs(doc.trc[c])[a])

HasCalibrationOf(data, n) ==
    /\ HeaderValidOf(data, n)
    /\ ~HasTag(data, vcgt)
    /\ HasTag(data, MS00)
    /\ WcsHasDocument(TagBytesOf(data, MS00))
    /\ DocumentShaped(WcsDocument(TagBytesOf(data, MS00)))
HasCalibration(data) == HasCalibrationOf(data, Len(data))
InputDocument == WcsDocument(TagBytesOf(prof_data, MS00))

\* the length of the input file
InputLen == Len(prof_data) + fill

\* the 4-byte words of the content the converted profile holds for entry i of
\* the table: the bytes of the range that lie in the file, padded to a word,
\* once for each signature (its last entry)
EntryWords(data, n, i) ==
    IF \E j \in (i + 1)..EntryCount(data) : EntrySig(data, j) = EntrySig(data, i)
    THEN 0
    ELSE (Min(EntryOffset(data, i) + EntryLength(data, i), n)
          - Min(EntryOffset(data, i), n) + 3) \div 4
\* the words of its entry in the table of the converted profile
EntrySlots(data, i) ==
    IF \E j \in 1..(i - 1) : EntrySig(data, j) = EntrySig(data, i) THEN 0 ELSE 3
RECURSIVE TableWords(_, _, _)
TableWords(data, n, i) ==
    IF i = 0 THEN 0
    ELSE EntryWords(data, n, i) + EntrySlots(data, i) + TableWords(data, n, i - 1)
\* the converted profile in words: 32 of header, the count, the table with the
\* entry of 'vcgt', the contents, and the 12 words of the 'vcgt' tag
ConvertedWords(data, n) == 32 + 1 + TableWords(data, n, EntryCount(data)) + 3 + 12
\* the converted profile is shorter than 2^32 bytes, the most a size field holds
MaxProfileWords == 1073741823
ConvertedFits(data, n) == ConvertedWords(data, n) <= MaxProfileWords

\* the size field as two 16-bit halves, and a length lit + el in the same form
SizeHalves(data) == <<data[1] * 256 + data[2], data[3] * 256 + data[4]>>
LengthHalves(lit, el) == <<el.hi + ((lit + el.lo) \div 65536), (lit + el.lo) % 65536>>

Succeeded == pc = "done" /\ ret = 0
NothingWritten == output_file = NoFile

(***************************************************************************)
(* The properties.                                                         *)
(***************************************************************************)

\* what a conversion leaves: the return code and the file written
Converted ==
    /\ ret = 0 /\ exc = "" /\ stdout = ""
    /\ output_file # NoFile
    /\ body # None
    /\ Len(output_file) >= 4
    /\ SizeHalves(output_file) = LengthHalves(128 + Len(body), elided)
    /\ SizeHalves(output_file) = LengthHalves(Len(output_file), elided)
    /\ SizeHalves(output_file) # <<0, 0>>
    /\ SizeHalves(output_file)[2] % 4 = 0

\* C1: a header-valid input without 'vcgt' whose 'MS00' tag holds a well-formed
\* calibration (a document of the expected shape, every value v with
\* 0 <= v * 65535 <= 2^32 - 1) is converted: main returns 0, and the size field of
\* the file written is 128 + len(generate_body(tags)), is the length of the file,
\* and is a positive multiple of 4.
C1_ConversionSucceeds ==
    (/\ pc = "done"
     /\ HasCalibrationOf(prof_data, InputLen)
     /\ DocumentInRange(InputDocument))
        => Converted

\* C1, as it holds: a header-valid input without 'vcgt' whose 'MS00' tag holds a
\* well-formed calibration, and whose converted profile (header, tag count, one
\* entry and the padded content for each signature, the entry and the 48 bytes
\* of 'vcgt') is shorter than 2^32 bytes, is converted: main returns 0, and the
\* size field of the file written is 128 + len(generate_body(tags)), is the
\* length of the file, and is a positive multiple of 4.
C1_ConversionSucceedsWhenSizeFits ==
    (/\ pc = "done"
     /\ HasCalibrationOf(prof_data, InputLen)
     /\ DocumentInRange(InputDocument)
     /\ ConvertedFits(prof_data, InputLen))
        => Converted

C1_Witness ==
    /\ pc = "done" /\ run = 1 /\ ret = 0
    /\ HasCalibrationOf(prof_data, InputLen) /\ DocumentInRange(InputDocument)
    /\ ConvertedFits(prof_data, InputLen)
    /\ EntryCount(prof_data) = 4
    /\ fill = FillLen
    /\ elided.hi >= 32768
    /\ SizeHalves(output_file) = LengthHalves(Len(output_file), elided)

\* C2: after a successful conversion of an input whose tag table has unique
\* signatures, the output table is the input table, entry by entry (signature
\* and content, in order), followed by 'vcgt' as the last entry, and header
\* bytes 4..127 are those of the input.
C2_OnlyTagAdded ==
    (Succeeded /\ run = 1 /\ UniqueSignatures(prof_data))
        => /\ TableInFile(output_file)
           /\ EntryCount(output_file) = EntryCount(prof_data) + 1
           /\ \A i \in 1..EntryCount(prof_data) :
                  /\ EntrySig(output_file, i) = EntrySig(prof_data, i)
                  /\ EntryInFile(output_file, i)
                  /\ EntryBytes(output_file, i) = EntryBytes(prof_data, i)
           /\ EntrySig(output_file, EntryCount(output_file)) = vcgt
           /\ SubSeq(output_file, 5, 128) = SubSeq(prof_data, 5, 128)

C2_Witness ==
    /\ Succeeded /\ run = 1 /\ UniqueSignatures(prof_data)
    /\ EntryCount(prof_data) = 3
    /\ EntrySig(prof_data, 3) = MS00
    /\ EntryLength(prof_data, 1) = 0
    /\ EntryLength(prof_data, 2) = 5
    /\ EntryCount(output_file) = 4

\* C3: main on the output of a successful conversion passes header validation
\* (the output is a valid header whose declared size is its length), finds
\* 'vcgt', prints "Profile already has VCGT", returns 1 and writes no file.
C3_Idempotence ==
    run = 2
        => /\ HeaderValid(prof_data)
           /\ HasTag(prof_data, vcgt)
           /\ pc \in {"check_signature", "parse_tags", "check_vcgt", "done"}
           /\ exc = ""
           /\ NothingWritten
           /\ pc = "done" => (ret = 1 /\ stdout = "Profile already has VCGT")

C3_Witness ==
    run = 2 /\ pc = "done" /\ ret = 1 /\ stdout = "Profile already has VCGT"

\* C4: when any of the eight header conditions fails, for an input of any
\* length, main prints "Invalid ICC profile" and returns 1 and no later stage
\* runs; when all hold the input is accepted.
C4_HeaderRejection ==
    pc # "check_signature"
        => IF HeaderValid(prof_data)
           THEN stdout # "Invalid ICC profile"
           ELSE /\ pc = "done" /\ ret = 1 /\ exc = ""
                /\ stdout = "Invalid ICC profile"
                /\ tags = <<>> /\ wcs_data = None /\ NothingWritten

\* C5 as stated: a header-valid input with no 'vcgt' tag and no 'MS00' tag makes
\* main return 1 with "WCS tag is not present", never with an exception.
C5_WcsAbsentReported ==
    (pc = "done" /\ HeaderValid(prof_data)
     /\ ~HasTag(prof_data, vcgt) /\ ~HasTag(prof_data, MS00))
        => (ret = 1 /\ exc = "" /\ stdout = "WCS tag is not present")

\* C5 amended: for a header-valid input whose tag count and tag entries lie
\* within the file, no 'vcgt' and no 'MS00' gives "WCS tag is not present" and
\* return 1; a 'vcgt' tag gives "Profile already has VCGT" whether or not 'MS00'
\* is there; a run prints one of the three messages only in the order header
\* check, VCGT check, WCS check, and none of the three ends in an exception or
\* writes a file.
C5_WcsAbsentReportedWhenTableReadable ==
    /\ (pc = "done" /\ HeaderValid(prof_data) /\ TableInFile(prof_data))
           => /\ HasTag(prof_data, vcgt)
                  => (ret = 1 /\ exc = "" /\ stdout = "Profile already has VCGT")
              /\ (~HasTag(prof_data, vcgt) /\ ~HasTag(prof_data, MS00))
                  => (ret = 1 /\ exc = "" /\ stdout = "WCS tag is not present")
              /\ (~HasTag(prof_data, vcgt) /\ HasTag(prof_data, MS00)) => stdout = ""
    /\ stdout = "Invalid ICC profile" => ~HeaderValid(prof_data)
    /\ stdout \in {"Profile already has VCGT", "WCS tag is not present"}
           => HeaderValid(prof_data)
    /\ stdout # "" => (pc = "done" /\ ret = 1 /\ exc = "" /\ NothingWritten)

C5_Witness ==
    /\ pc = "done" /\ HeaderValid(prof_data) /\ TableInFile(prof_data)
    /\ EntryCount(prof_data) = 2
    /\ ~HasTag(prof_data, vcgt) /\ ~HasTag(prof_data, MS00)
    /\ ret = 1 /\ stdout = "WCS tag is not present"

\* C6: the output file is opened only after every step that can fail, body
\* serialization and size-field packing included, has completed; a run that
\* ends in a failure leaves no output file.
C6_NoPartialOutput ==
    /\ output_file # NoFile => (body # None /\ pc \in {"return", "done"} /\ exc = "")
    /\ (pc = "done" /\ ret # 0) => NothingWritten

\* the words the document asks for, computed from its values
WordBytes(q) == <<q \div 16777216, (q \div 65536) % 256, (q \div 256) % 256, q % 256>>
ExpectedWord(v) ==
    IF v.num = 65537 /\ v.den = 1 THEN <<255, 255, 255, 255>>
    ELSE IF v.num < 0 THEN WordBytes(0 - (((0 - v.num) * 65535) \div v.den))
    ELSE WordBytes((v.num * 65535) \div v.den)
ExpectedValue(doc, c, a) ==
    IF doc.trc[c].present /\ Attrs(doc.trc[c])[a].k = "num" THEN Attrs(doc.trc[c])[a]
    ELSE [num |-> ValueDefaults[a], den |-> 1]
ExpectedChannel(doc, c) ==
    ExpectedWord(ExpectedValue(doc, c, 1)) \o ExpectedWord(ExpectedValue(doc, c, 2))
    \o ExpectedWord(ExpectedValue(doc, c, 3))
WrittenVcgt == EntryBytes(output_file, EntryCount(output_file))

\* C7: the 'vcgt' tag written is the 12-byte prefix and nine big-endian words,
\* red, green, blue and gamma, offset, gain within each, every word the value
\* times 65535 truncated toward zero, where an absent channel element and an
\* absent attribute give the defaults 1, 0, 1, each on its own.
C7_VcgtEncoding ==
    (Succeeded /\ run = 1)
        => /\ Len(WrittenVcgt) = 48
           /\ SubSeq(WrittenVcgt, 1, 12) = <<118, 99, 103, 116, 0, 0, 0, 0, 0, 0, 0, 1>>
           /\ \A c \in 1..3 :
                  /\ SubSeq(WrittenVcgt, 12 * c + 1, 12 * c + 12)
                         = ExpectedChannel(InputDocument, c)
                  /\ ~InputDocument.trc[c].present
                         => SubSeq(WrittenVcgt, 12 * c + 1, 12 * c + 12)
                                = <<0, 0, 255, 255, 0, 0, 0, 0, 0, 0, 255, 255>>
                  /\ InputDocument.trc[c] = FullElem
                         => SubSeq(WrittenVcgt, 12 * c + 1, 12 * c + 12)
                                = <<0, 2, 51, 49, 0, 0, 0, 0, 0, 0, 255, 255>>

C7_Witness ==
    /\ Succeeded /\ run = 1
    /\ InputDocument.trc[1] = FullElem
    /\ InputDocument.trc[2] = Elem(Num(1, 2), NoAttr, Num(3, 4), FALSE)
    /\ ~InputDocument.trc[3].present
    /\ SubSeq(WrittenVcgt, 25, 36) = <<0, 0, 127, 255, 0, 0, 0, 0, 0, 0, 191, 255>>

\* C8: a calibration value whose product with 65535 lies outside
\* [0, 2^32 - 1] ends the run in an error with no output written.
C8_OutOfRangeRejected ==
    (pc = "done" /\ run = 1 /\ HasCalibration(prof_data)
     /\ ~DocumentInRange(InputDocument))
        => (ret # 0 /\ NothingWritten)

\* C10: conversion never succeeds on an input in which a tag entry's range
\* extends past the end of the file: every tag converted has the length its
\* entry declares.
C10_NoRepair ==
    (Succeeded /\ run = 1)
        => \A i \in 1..EntryCount(prof_data) :
               /\ EntryInFile(prof_data, i)
               /\ Len(EntryBytes(prof_data, i)) = EntryLength(prof_data, i)

\* the layout of a serialized table, from the lengths of its values
RoundUp4(x) == 4 * ((x + 3) \div 4)
RECURSIVE SumRounded(_, _)
SumRounded(t, k) == IF k = 0 THEN 0 ELSE SumRounded(t, k - 1) + RoundUp4(Len(t[k].val))
RangeEnd(f, i) == EntryOffset(f, i) + EntryLength(f, i)
NextStart(f, i) == IF i < EntryCount(f) THEN EntryOffset(f, i + 1) ELSE Len(f)

\* C9: in create_profile(header, generate_body(table)) for a table of n entries
\* with unique signatures, entry i records its tag's unrounded length and the
\* offset 132 + 12n + the earlier lengths each rounded up to a multiple of 4;
\* offsets are multiples of 4, the file holds the tag's content at
\* [offset, offset + length) followed by 0 to 3 zero bytes, the ranges are
\* disjoint and inside the file, and parse_tags returns the table.
C9_SerializeRoundTrip ==
    pc \in {"body_parse", "body_done"}
        => /\ TableInFile(output_file)
           /\ EntryCount(output_file) = Len(tags)
           /\ DeclaredSize(output_file) = Len(output_file)
           /\ Len(tags) = 0 => Len(output_file) = 132
           /\ \A i \in 1..Len(tags) :
                  /\ EntrySig(output_file, i) = tags[i].sig
                  /\ EntryLength(output_file, i) = Len(tags[i].val)
                  /\ EntryOffset(output_file, i)
                         = 132 + 12 * Len(tags) + SumRounded(tags, i - 1)
                  /\ EntryOffset(output_file, i) % 4 = 0
                  /\ EntryInFile(output_file, i)
                  /\ EntryBytes(output_file, i) = tags[i].val
                  /\ NextStart(output_file, i) - RangeEnd(output_file, i) \in 0..3
                  /\ NextStart(output_file, i) % 4 = 0
                  /\ \A q \in (RangeEnd(output_file, i) + 1)..NextStart(output_file, i) :
                         output_file[q] = 0
                  /\ \A j \in (i + 1)..Len(tags) :
                         RangeEnd(output_file, i) <= EntryOffset(output_file, j)
           /\ pc = "body_done" => reparsed = tags

C9_Witness ==
    /\ pc = "body_done"
    /\ Len(tags) = 3
    /\ Len(tags[1].val) = 0 /\ Len(tags[2].val) = 5 /\ Len(tags[3].val) = 2
    /\ EntryOffset(output_file, 3) = 176
    /\ reparsed = tags

====
